---- MODULE Spec2Model ----
(***************************************************************************)
(* Model of the two streaming summaries of the repository:                 *)
(*   LossyCount     (src/src/lossy_count.py)                               *)
(*   CsurosCounter  (src/src/csuros_counter.py)                            *)
(* One instance of one of the two classes is constructed and then driven   *)
(* through its methods.  Python floats that hold fractions are modelled    *)
(* as exact rationals <<numerator, denominator>> with denominator > 0; the  *)
(* arguments tried (epsilon, support, base) are binary fractions, for      *)
(* which the float operations of the code are exact.  A Python dict is     *)
(* modelled as the sequence of its key/value records in insertion order.   *)
(***************************************************************************)
EXTENDS Integers, Sequences, FiniteSets, TLC

VARIABLES
    obj,                      \* which instance exists: "none", "LossyCount", "CsurosCounter"
    err,                      \* exception raised by the last call, "none" if it returned
    ret,                      \* [op, val]: the last call and the value it returned
    epsilon,                  \* LossyCount.epsilon
    support,                  \* LossyCount.support
    bucket_width,             \* LossyCount.bucket_width
    entries,                  \* LossyCount.entries, dict in insertion order
    current_bucket,           \* LossyCount.current_bucket
    items_in_current_bucket,  \* LossyCount.items_in_current_bucket
    max_entries,              \* LossyCount.max_entries
    prune_count,              \* LossyCount.prune_count
    base,                     \* CsurosCounter.base
    counters,                 \* CsurosCounter.counters, defaultdict in insertion order
    total_items,              \* total_items of the instance
    processing_time,          \* processing_time of the instance
    true_frequency            \* history: times each item was processed since construction/reset

vars == <<obj, err, ret, epsilon, support, bucket_width, entries, current_bucket,
          items_in_current_bucket, max_entries, prune_count, base, counters,
          total_items, processing_time, true_frequency>>

lcVars == <<epsilon, support, bucket_width, entries, current_bucket,
            items_in_current_bucket, max_entries, prune_count>>

csVars == <<base, counters>>

(***************************************************************************)
(* Bounds of the model                                                     *)
(***************************************************************************)
MaxTotal == 6        \* items a LossyCount processes in one run
MaxIncr == 4         \* increments a CsurosCounter performs in one run
MaxStreamLen == 1    \* length of a stream handed to process_stream
MaxTopN == 2         \* largest n passed to the top-n / bottom-n queries
DrawDen == 2         \* random.random() returns k / DrawDen, k in 0 .. DrawDen-1

Items == {"A", "B", "C"}      \* items fed to a LossyCount
CsItems == {"A", "B"}         \* items fed to a CsurosCounter
NaN == "NaN"
\* time.time() - start_time as process_stream measures it: zero or one tick
ElapsedTimes == {0, 1}
None == "None"

(***************************************************************************)
(* Exact rationals                                                         *)
(***************************************************************************)
RECURSIVE GCD(_, _)
GCD(a, b) == IF b = 0 THEN a ELSE GCD(b, a % b)

Abs(x) == IF x < 0 THEN -x ELSE x

Rat(n, d) ==
    LET g == GCD(Abs(n), Abs(d))
        s == IF d < 0 THEN -1 ELSE 1
    IN  <<(s * n) \div g, (s * d) \div g>>

RInt(n) == <<n, 1>>
RLt(a, b) == a[1] * b[2] < b[1] * a[2]
RLeq(a, b) == a[1] * b[2] <= b[1] * a[2]
REq(a, b) == a[1] * b[2] = b[1] * a[2]
RAdd(a, b) == Rat(a[1] * b[2] + b[1] * a[2], a[2] * b[2])
RSub(a, b) == Rat(a[1] * b[2] - b[1] * a[2], a[2] * b[2])
RMul(a, b) == Rat(a[1] * b[1], a[2] * b[2])
RDiv(a, b) == Rat(a[1] * b[2], a[2] * b[1])
RCeil(a) == -((-a[1]) \div a[2])

Max(a, b) == IF a >= b THEN a ELSE b

(***************************************************************************)
(* Dict helpers: a dict is a sequence of records [item, ...]               *)
(***************************************************************************)
Keys(d) == {d[k].item : k \in 1..Len(d)}
IndexOf(d, item) == CHOOSE k \in 1..Len(d) : d[k].item = item
RemoveAt(d, k) == SubSeq(d, 1, k - 1) \o SubSeq(d, k + 1, Len(d))

\* sorted(s, key, reverse=True): stable, descending by keys[k], the key of s[k]
RECURSIVE SortedDesc(_, _)
SortedDesc(s, keys) ==
    IF s = <<>> THEN <<>>
    ELSE LET k == CHOOSE i \in 1..Len(s) :
                     /\ \A j \in 1..Len(s) : RLeq(keys[j], keys[i])
                     /\ \A j \in 1..(i - 1) : RLt(keys[j], keys[i])
         IN  <<s[k]>> \o SortedDesc(RemoveAt(s, k), RemoveAt(keys, k))

\* sorted(s, key): stable, ascending by keys[k], the key of s[k]
RECURSIVE SortedAsc(_, _)
SortedAsc(s, keys) ==
    IF s = <<>> THEN <<>>
    ELSE LET k == CHOOSE i \in 1..Len(s) :
                     /\ \A j \in 1..Len(s) : RLeq(keys[i], keys[j])
                     /\ \A j \in 1..(i - 1) : RLt(keys[i], keys[j])
         IN  <<s[k]>> \o SortedAsc(RemoveAt(s, k), RemoveAt(keys, k))

Take(s, n) == SubSeq(s, 1, IF n < Len(s) THEN n ELSE Len(s))

(***************************************************************************)
(* LossyCount                                                              *)
(***************************************************************************)
\* arguments tried for the constructor
EpsilonArgs == {<<-1, 4>>, <<0, 1>>, <<1, 4>>, <<3, 8>>, <<1, 2>>, <<1, 1>>}
SupportArgs == {<<0, 1>>, <<3, 8>>, <<3, 4>>, <<1, 1>>, <<5, 4>>}

ZeroTrue == [i \in Items |-> 0]

Init ==
    /\ obj = "none"
    /\ err = "none"
    /\ ret = [op |-> "none", val |-> None]
    /\ epsilon = RInt(0)
    /\ support = RInt(0)
    /\ bucket_width = 0
    /\ entries = <<>>
    /\ current_bucket = 0
    /\ items_in_current_bucket = 0
    /\ max_entries = 0
    /\ prune_count = 0
    /\ base = RInt(0)
    /\ counters = <<>>
    /\ total_items = 0
    /\ processing_time = 0
    /\ true_frequency = ZeroTrue

\* variant: the check epsilon < support is missing
LC_init_raises_unordered(eps, sup) ==
    \/ RLeq(eps, RInt(0)) \/ RLeq(RInt(1), eps)
    \/ RLeq(sup, RInt(0)) \/ RLeq(RInt(1), sup)

\* the three checks of __init__, in order; TRUE when one of them raises
LC_init_raises(eps, sup) ==
    \/ RLeq(eps, RInt(0)) \/ RLeq(RInt(1), eps)
    \/ RLeq(sup, RInt(0)) \/ RLeq(RInt(1), sup)
    \/ RLeq(sup, eps)

\* variant: floor instead of ceil
BucketWidth_floor(eps) == RDiv(RInt(1), eps)[1] \div RDiv(RInt(1), eps)[2]

BucketWidth(eps) == RCeil(RDiv(RInt(1), eps))

\* the fields assigned by a successful __init__(eps, sup)
LCNew(eps, sup) ==
    [epsilon |-> eps, support |-> sup, bucket_width |-> BucketWidth(eps),
     entries |-> <<>>, current_bucket |-> 1, items_in_current_bucket |-> 0,
     total_items |-> 0, processing_time |-> 0, max_entries |-> 0, prune_count |-> 0]

LC_init(eps, sup) ==
    /\ obj = "none" /\ err = "none"
    /\ IF LC_init_raises(eps, sup)
       THEN /\ err' = "ValueError"
            /\ UNCHANGED <<obj, lcVars, total_items, processing_time>>
       ELSE /\ obj' = "LossyCount"
            /\ err' = "none"
            /\ epsilon' = LCNew(eps, sup).epsilon
            /\ support' = LCNew(eps, sup).support
            /\ bucket_width' = LCNew(eps, sup).bucket_width
            /\ entries' = LCNew(eps, sup).entries
            /\ current_bucket' = LCNew(eps, sup).current_bucket
            /\ items_in_current_bucket' = LCNew(eps, sup).items_in_current_bucket
            /\ total_items' = LCNew(eps, sup).total_items
            /\ processing_time' = LCNew(eps, sup).processing_time
            /\ max_entries' = LCNew(eps, sup).max_entries
            /\ prune_count' = LCNew(eps, sup).prune_count
    /\ ret' = [op |-> "LossyCount", val |-> <<eps, sup>>]
    /\ UNCHANGED <<csVars, true_frequency>>

\* variant: a new entry gets delta = 0
InsertOrUpdate_zero_delta(ents, item, cb) ==
    IF item \in Keys(ents)
    THEN LET k == IndexOf(ents, item)
         IN  [ents EXCEPT ![k] = [item |-> item, count |-> ents[k].count + 1,
                                  delta |-> ents[k].delta]]
    ELSE Append(ents, [item |-> item, count |-> 1, delta |-> 0])

\* the insert/update step of _process_item
InsertOrUpdate(ents, item, cb) ==
    IF item \in Keys(ents)
    THEN LET k == IndexOf(ents, item)
         IN  [ents EXCEPT ![k] = [item |-> item, count |-> ents[k].count + 1,
                                  delta |-> ents[k].delta]]
    ELSE Append(ents, [item |-> item, count |-> 1, delta |-> cb - 1])

\* variant: the prune spares an entry with count + delta = current_bucket
ToRemove_strict(e, cb) == e.count + e.delta < cb

\* variant: the prune compares with the bucket after the one just completed
ToRemove_eager(e, cb) == e.count + e.delta <= cb + 1

\* the condition under which _prune_entries removes an entry
ToRemove(e, cb) == e.count + e.delta <= cb

\* entries after _prune_entries
Pruned(ents, cb) == SelectSeq(ents, LAMBDA e : ~ToRemove(e, cb))

\* variant: max_entries is taken after the prune
ProcessItem_max_after_prune(st, item) ==
    LET ents1 == InsertOrUpdate(st.entries, item, st.current_bucket)
        full  == st.items_in_current_bucket + 1 >= st.bucket_width
        ents2 == IF full THEN Pruned(ents1, st.current_bucket) ELSE ents1
    IN  [st EXCEPT
            !.total_items = st.total_items + 1,
            !.entries = ents2,
            !.max_entries = Max(st.max_entries, Len(ents2)),
            !.prune_count = IF full /\ Len(ents2) < Len(ents1)
                            THEN st.prune_count + 1 ELSE st.prune_count,
            !.current_bucket = IF full THEN st.current_bucket + 1 ELSE st.current_bucket,
            !.items_in_current_bucket = IF full THEN 0 ELSE st.items_in_current_bucket + 1,
            !.true_frequency = [st.true_frequency EXCEPT ![item] = @ + 1]]

\* variant: the bucket closes one item late
ProcessItem_late(st, item) ==
    LET ents1 == InsertOrUpdate(st.entries, item, st.current_bucket)
        full  == st.items_in_current_bucket + 1 > st.bucket_width
        ents2 == IF full THEN Pruned(ents1, st.current_bucket) ELSE ents1
    IN  [st EXCEPT
            !.total_items = st.total_items + 1,
            !.entries = ents2,
            !.max_entries = Max(st.max_entries, Len(ents1)),
            !.prune_count = IF full /\ Len(ents2) < Len(ents1)
                            THEN st.prune_count + 1 ELSE st.prune_count,
            !.current_bucket = IF full THEN st.current_bucket + 1 ELSE st.current_bucket,
            !.items_in_current_bucket = IF full THEN 0 ELSE st.items_in_current_bucket + 1,
            !.true_frequency = [st.true_frequency EXCEPT ![item] = @ + 1]]

\* the LossyCount fields, as a record, after _process_item(item)
ProcessItem(st, item) ==
    LET ents1 == InsertOrUpdate(st.entries, item, st.current_bucket)
        full  == st.items_in_current_bucket + 1 >= st.bucket_width
        ents2 == IF full THEN Pruned(ents1, st.current_bucket) ELSE ents1
    IN  [st EXCEPT
            !.total_items = st.total_items + 1,
            !.entries = ents2,
            !.max_entries = Max(st.max_entries, Len(ents1)),
            !.prune_count = IF full /\ Len(ents2) < Len(ents1)
                            THEN st.prune_count + 1 ELSE st.prune_count,
            !.current_bucket = IF full THEN st.current_bucket + 1 ELSE st.current_bucket,
            !.items_in_current_bucket = IF full THEN 0 ELSE st.items_in_current_bucket + 1,
            !.true_frequency = [st.true_frequency EXCEPT ![item] = @ + 1]]

LCState ==
    [entries |-> entries, current_bucket |-> current_bucket,
     items_in_current_bucket |-> items_in_current_bucket,
     total_items |-> total_items, max_entries |-> max_entries,
     prune_count |-> prune_count, bucket_width |-> bucket_width,
     true_frequency |-> true_frequency]

LC_set(st) ==
    /\ entries' = st.entries
    /\ current_bucket' = st.current_bucket
    /\ items_in_current_bucket' = st.items_in_current_bucket
    /\ total_items' = st.total_items
    /\ max_entries' = st.max_entries
    /\ prune_count' = st.prune_count
    /\ true_frequency' = st.true_frequency

\* _process_item(item) on an instance that has processed fewer than cap items
LC_process_item_upto(item, cap) ==
    /\ obj = "LossyCount"
    /\ total_items < cap
    /\ LC_set(ProcessItem(LCState, item))
    /\ err' = "none"
    /\ ret' = [op |-> "_process_item", val |-> None]
    /\ UNCHANGED <<obj, epsilon, support, bucket_width, processing_time, csVars>>

LC_process_item(item) == LC_process_item_upto(item, MaxTotal)

\* pd.notna(item)
notna(item) == item # NaN

StreamElems == Items \cup {NaN}
Streams == UNION {[1..n -> StreamElems] : n \in 0..MaxStreamLen}

\* variant: a NaN element is not stored but is counted in total_items
RECURSIVE ProcessStream_counts_missing(_, _)
ProcessStream_counts_missing(st, stream) ==
    IF stream = <<>> THEN st
    ELSE ProcessStream_counts_missing(
             IF notna(Head(stream)) THEN ProcessItem(st, Head(stream))
             ELSE [st EXCEPT !.total_items = st.total_items + 1],
             Tail(stream))

\* the loop of process_stream: _process_item on every element that is not NaN
RECURSIVE ProcessStream(_, _)
ProcessStream(st, stream) ==
    IF stream = <<>> THEN st
    ELSE ProcessStream(IF notna(Head(stream)) THEN ProcessItem(st, Head(stream)) ELSE st,
                       Tail(stream))

NotnaCount(stream) == Cardinality({k \in 1..Len(stream) : notna(stream[k])})

\* process_stream(stream) that leaves the instance with at most cap items processed
LC_process_stream_upto(stream, elapsed, cap) ==
    /\ obj = "LossyCount"
    /\ total_items + NotnaCount(stream) <= cap
    /\ LC_set(ProcessStream(LCState, stream))
    /\ processing_time' = elapsed
    /\ err' = "none"
    /\ ret' = [op |-> "process_stream", val |-> None]
    /\ UNCHANGED <<obj, epsilon, support, bucket_width, csVars>>

LC_process_stream(stream, elapsed) == LC_process_stream_upto(stream, elapsed, MaxTotal)

\* min_support arguments; NoArg stands for the omitted argument (None)
NoArg == <<>>

\* variant: the threshold ignores epsilon
GetFrequentItems_no_epsilon(ents, eps, sup, total, min_support) ==
    LET ms        == IF min_support = NoArg THEN sup ELSE min_support
        threshold == RMul(ms, RInt(total))
        kept      == SelectSeq(ents, LAMBDA e : RLeq(threshold, RInt(e.count)))
        frequent  == [k \in 1..Len(kept) |->
                        <<kept[k].item, kept[k].count,
                          IF total > 0 THEN Rat(kept[k].count, total) ELSE RInt(0)>>]
    IN  SortedDesc(frequent, [k \in 1..Len(frequent) |-> RInt(frequent[k][2])])

\* value returned by get_frequent_items(min_support)
GetFrequentItems(ents, eps, sup, total, min_support) ==
    LET ms        == IF min_support = NoArg THEN sup ELSE min_support
        threshold == RMul(RSub(ms, eps), RInt(total))
        kept      == SelectSeq(ents, LAMBDA e : RLeq(threshold, RInt(e.count)))
        frequent  == [k \in 1..Len(kept) |->
                        <<kept[k].item, kept[k].count,
                          IF total > 0 THEN Rat(kept[k].count, total) ELSE RInt(0)>>]
    IN  SortedDesc(frequent, [k \in 1..Len(frequent) |-> RInt(frequent[k][2])])

\* variant: the sort is ascending
GetTopN_ascending(ents, n) ==
    LET sorted_items == SortedAsc(ents, [k \in 1..Len(ents) |-> RInt(ents[k].count)])
        first        == Take(sorted_items, n)
    IN  [k \in 1..Len(first) |-> <<first[k].item, first[k].count>>]

\* value returned by get_top_n(n)
GetTopN(ents, n) ==
    LET sorted_items == SortedDesc(ents, [k \in 1..Len(ents) |-> RInt(ents[k].count)])
        first        == Take(sorted_items, n)
    IN  [k \in 1..Len(first) |-> <<first[k].item, first[k].count>>]

\* value returned by get_count(item)
GetCount(ents, item) ==
    IF item \in Keys(ents) THEN ents[IndexOf(ents, item)].count ELSE 0

\* value returned by get_all_counts()
GetAllCounts(ents) == [k \in 1..Len(ents) |-> <<ents[k].item, ents[k].count>>]

\* value returned by LossyCount.get_statistics()
LCStatistics(ents, eps, sup, bw, cb, total, maxe, prunes, ptime) ==
    [total_items |-> total,
     unique_items_stored |-> Len(ents),
     epsilon |-> eps,
     support |-> sup,
     bucket_width |-> bw,
     current_bucket |-> cb,
     max_entries |-> maxe,
     prune_count |-> prunes,
     processing_time |-> ptime,
     memory_efficiency |-> IF bw > 0 THEN Rat(Len(ents), bw) ELSE RInt(0)]

\* a call that returns a value and assigns no field
LC_returns(op, val) ==
    /\ obj = "LossyCount"
    /\ ret' = [op |-> op, val |-> val]
    /\ err' = "none"
    /\ UNCHANGED <<obj, lcVars, csVars, total_items, processing_time, true_frequency>>

MinSupportArgs == {NoArg, <<1, 2>>, <<1, 1>>}

LC_get_frequent_items(min_support) ==
    LC_returns("get_frequent_items",
               GetFrequentItems(entries, epsilon, support, total_items, min_support))

LC_get_top_n(n) == LC_returns("get_top_n", GetTopN(entries, n))

\* variant: the lookup stores a default entry for an absent item
LC_get_count_setdefault(item) ==
    /\ obj = "LossyCount"
    /\ ret' = [op |-> "get_count", val |-> GetCount(entries, item)]
    /\ err' = "none"
    /\ entries' = IF item \in Keys(entries) THEN entries
                  ELSE Append(entries, [item |-> item, count |-> 0, delta |-> 0])
    /\ UNCHANGED <<obj, epsilon, support, bucket_width, current_bucket,
                   items_in_current_bucket, max_entries, prune_count, csVars,
                   total_items, processing_time, true_frequency>>

LC_get_count(item) == LC_returns("get_count", GetCount(entries, item))

LC_get_all_counts == LC_returns("get_all_counts", GetAllCounts(entries))

LC_get_statistics ==
    LC_returns("get_statistics",
               LCStatistics(entries, epsilon, support, bucket_width, current_bucket,
                            total_items, max_entries, prune_count, processing_time))

\* variant: the statistics max_entries and prune_count survive the reset
LC_reset_partial ==
    /\ obj = "LossyCount"
    /\ entries' = <<>>
    /\ current_bucket' = 1
    /\ items_in_current_bucket' = 0
    /\ total_items' = 0
    /\ processing_time' = 0
    /\ true_frequency' = ZeroTrue
    /\ err' = "none"
    /\ ret' = [op |-> "reset", val |-> None]
    /\ UNCHANGED <<obj, epsilon, support, bucket_width, max_entries, prune_count, csVars>>

LC_reset ==
    /\ obj = "LossyCount"
    /\ entries' = <<>>
    /\ current_bucket' = 1
    /\ items_in_current_bucket' = 0
    /\ total_items' = 0
    /\ processing_time' = 0
    /\ max_entries' = 0
    /\ prune_count' = 0
    /\ true_frequency' = ZeroTrue
    /\ err' = "none"
    /\ ret' = [op |-> "reset", val |-> None]
    /\ UNCHANGED <<obj, epsilon, support, bucket_width, csVars>>

(***************************************************************************)
(* CsurosCounter                                                           *)
(***************************************************************************)
BaseArgs == {<<0, 1>>, <<1, 2>>, <<1, 1>>, <<3, 2>>, <<2, 1>>, <<3, 1>>}

\* the values random.random() can return
Draws == {<<k, DrawDen>> : k \in 0..(DrawDen - 1)}

\* the fields assigned by __init__(b)
CsNew(b) == [base |-> b, counters |-> <<>>, total_items |-> 0, processing_time |-> 0]

Cs_init(b) ==
    /\ obj = "none" /\ err = "none"
    /\ obj' = "CsurosCounter"
    /\ base' = CsNew(b).base
    /\ counters' = CsNew(b).counters
    /\ total_items' = CsNew(b).total_items
    /\ processing_time' = CsNew(b).processing_time
    /\ err' = "none"
    /\ ret' = [op |-> "CsurosCounter", val |-> b]
    /\ UNCHANGED <<lcVars, true_frequency>>

\* b ** e for an integer e >= 0
RECURSIVE RPowNat(_, _)
RPowNat(b, e) == IF e = 0 THEN RInt(1) ELSE RMul(b, RPowNat(b, e - 1))

\* b ** e for any integer e (b # 0 when e < 0)
RPow(b, e) == IF e >= 0 THEN RPowNat(b, e) ELSE RDiv(RInt(1), RPowNat(b, -e))

\* largest e >= from with b ** e <= v, for b > 1 and v >= b ** from
RECURSIVE FloorLogUp(_, _, _)
FloorLogUp(v, b, from) ==
    IF RLeq(RPow(b, from + 1), v) THEN FloorLogUp(v, b, from + 1) ELSE from

\* largest e <= from with b ** e >= v (b ** e falls as e grows), for 0 < b < 1 and v >= 1
RECURSIVE FloorLogDown(_, _, _)
FloorLogDown(v, b, from) ==
    IF RLeq(v, RPow(b, from)) THEN from ELSE FloorLogDown(v, b, from - 1)

\* the exception math.log(current_value, base) raises for current_value >= 1
LogRaises(b) ==
    IF RLeq(b, RInt(0)) THEN "ValueError"
    ELSE IF REq(b, RInt(1)) THEN "ZeroDivisionError"
    ELSE "none"

\* math.floor(math.log(v, b)) for v >= 1, b > 0, b # 1
Exponent(v, b) ==
    IF RLt(RInt(1), b) THEN FloorLogUp(v, b, 0) ELSE FloorLogDown(v, b, 0)

\* probability = 1.0 / (base ** exponent)
Probability(v, b) == RDiv(RInt(1), RPow(b, Exponent(v, b)))

\* variant: a successful increment adds 1 instead of base^exponent
Increment_by_one(current_value, b, u) ==
    IF RLt(current_value, RInt(1)) THEN [raises |-> "none", value |-> RInt(1)]
    ELSE IF LogRaises(b) # "none"
         THEN [raises |-> LogRaises(b), value |-> current_value]
    ELSE IF RLt(u, Probability(current_value, b))
         THEN [raises |-> "none", value |-> RAdd(current_value, RInt(1))]
    ELSE [raises |-> "none", value |-> current_value]

\* variant: a successful draw subtracts the step
Increment_subtract(current_value, b, u) ==
    IF RLt(current_value, RInt(1)) THEN [raises |-> "none", value |-> RInt(1)]
    ELSE IF LogRaises(b) # "none"
         THEN [raises |-> LogRaises(b), value |-> current_value]
    ELSE IF RLt(u, Probability(current_value, b))
         THEN [raises |-> "none",
               value |-> RSub(current_value, RPow(b, Exponent(current_value, b)))]
    ELSE [raises |-> "none", value |-> current_value]

\* _increment(current_value) when random.random() returns u: [raises, value]
Increment(current_value, b, u) ==
    IF RLt(current_value, RInt(1)) THEN [raises |-> "none", value |-> RInt(1)]
    ELSE IF LogRaises(b) # "none"
         THEN [raises |-> LogRaises(b), value |-> current_value]
    ELSE IF RLt(u, Probability(current_value, b))
         THEN [raises |-> "none",
               value |-> RAdd(current_value, RPow(b, Exponent(current_value, b)))]
    ELSE [raises |-> "none", value |-> current_value]

\* variant: the estimate leaves out the final + 1
Estimate_no_offset(counter_value, b) ==
    IF RLeq(counter_value, RInt(0)) THEN [raises |-> "none", value |-> RInt(0)]
    ELSE IF REq(b, RInt(1)) THEN [raises |-> "ZeroDivisionError", value |-> RInt(0)]
    ELSE [raises |-> "none",
          value |-> RMul(RDiv(b, RSub(b, RInt(1))), RSub(counter_value, RInt(1)))]

\* _estimate(counter_value): [raises, value]
Estimate(counter_value, b) ==
    IF RLeq(counter_value, RInt(0)) THEN [raises |-> "none", value |-> RInt(0)]
    ELSE IF REq(b, RInt(1)) THEN [raises |-> "ZeroDivisionError", value |-> RInt(0)]
    ELSE [raises |-> "none",
          value |-> RAdd(RMul(RDiv(b, RSub(b, RInt(1))), RSub(counter_value, RInt(1))),
                         RInt(1))]

\* self.counters[item] on the defaultdict(float): the dict after the read
Touched(ctrs, item) ==
    IF item \in Keys(ctrs) THEN ctrs ELSE Append(ctrs, [item |-> item, value |-> RInt(0)])

ValueOf(ctrs, item) == ctrs[IndexOf(ctrs, item)].value

\* the CsurosCounter fields, as a record, after increment(item) with draw u
CsIncrement(st, item, u) ==
    LET ctrs == Touched(st.counters, item)
        k    == IndexOf(ctrs, item)
        r    == Increment(ctrs[k].value, st.base, u)
    IN  IF r.raises # "none"
        THEN [st EXCEPT !.counters = ctrs, !.raises = r.raises]
        ELSE [st EXCEPT !.counters = [ctrs EXCEPT ![k].value = r.value],
                        !.total_items = st.total_items + 1,
                        !.true_frequency = [st.true_frequency EXCEPT ![item] = @ + 1]]

CsState ==
    [counters |-> counters, total_items |-> total_items, base |-> base,
     true_frequency |-> true_frequency, raises |-> "none"]

Cs_set(st) ==
    /\ counters' = st.counters
    /\ total_items' = st.total_items
    /\ true_frequency' = st.true_frequency
    /\ err' = st.raises

Cs_increment(item, u) ==
    /\ obj = "CsurosCounter"
    /\ total_items < MaxIncr
    /\ Cs_set(CsIncrement(CsState, item, u))
    /\ ret' = [op |-> "increment", val |-> None]
    /\ UNCHANGED <<obj, base, processing_time, lcVars>>

\* the loop of process_stream; stream[k] = <<item, draw>>; stops at the first exception
RECURSIVE CsProcessStream(_, _)
CsProcessStream(st, stream) ==
    IF stream = <<>> \/ st.raises # "none" THEN st
    ELSE CsProcessStream(IF notna(Head(stream)[1])
                         THEN CsIncrement(st, Head(stream)[1], Head(stream)[2])
                         ELSE st,
                         Tail(stream))

\* streams of <<item, draw>>; a NaN element is skipped and takes no draw
DrawStreamElems == (CsItems \X Draws) \cup {<<NaN, <<0, 1>>>>}
DrawStreams == UNION {[1..n -> DrawStreamElems] : n \in 0..MaxStreamLen}

NotnaCountCs(stream) == Cardinality({k \in 1..Len(stream) : notna(stream[k][1])})

Cs_process_stream(stream, elapsed) ==
    /\ obj = "CsurosCounter"
    /\ total_items + NotnaCountCs(stream) <= MaxIncr
    /\ LET st == CsProcessStream(CsState, stream)
       IN  /\ Cs_set(st)
           /\ processing_time' = IF st.raises = "none" THEN elapsed ELSE processing_time
    /\ ret' = [op |-> "process_stream", val |-> None]
    /\ UNCHANGED <<obj, base, lcVars>>

\* value returned by get_all_estimates(): [raises, value]
GetAllEstimates(ctrs, b) ==
    IF \E k \in 1..Len(ctrs) : Estimate(ctrs[k].value, b).raises # "none"
    THEN [raises |-> "ZeroDivisionError", value |-> None]
    ELSE [raises |-> "none",
          value |-> [k \in 1..Len(ctrs) |->
                        <<ctrs[k].item, Estimate(ctrs[k].value, b).value>>]]

\* value returned by get_most_frequent(n): [raises, value]
GetMostFrequent(ctrs, b, n) ==
    LET estimates == GetAllEstimates(ctrs, b)
    IN  IF estimates.raises # "none" THEN estimates
        ELSE [raises |-> "none",
              value |-> Take(SortedDesc(estimates.value,
                                        [k \in 1..Len(ctrs) |-> estimates.value[k][2]]), n)]

\* value returned by get_least_frequent(n): [raises, value]
GetLeastFrequent(ctrs, b, n) ==
    LET estimates == GetAllEstimates(ctrs, b)
    IN  IF estimates.raises # "none" THEN estimates
        ELSE [raises |-> "none",
              value |-> Take(SortedAsc(estimates.value,
                                       [k \in 1..Len(ctrs) |-> estimates.value[k][2]]), n)]

RMinOf(s) == CHOOSE x \in {s[k] : k \in 1..Len(s)} : \A k \in 1..Len(s) : RLeq(x, s[k])
RMaxOf(s) == CHOOSE x \in {s[k] : k \in 1..Len(s)} : \A k \in 1..Len(s) : RLeq(s[k], x)

RECURSIVE RSum(_)
RSum(s) == IF s = <<>> THEN RInt(0) ELSE RAdd(Head(s), RSum(Tail(s)))

EmptyDict == <<>>

\* value returned by CsurosCounter.get_statistics(): [raises, value]
CsStatistics(ctrs, b, total, ptime) ==
    IF ctrs = <<>> THEN [raises |-> "none", value |-> EmptyDict]
    ELSE LET all == GetAllEstimates(ctrs, b)
         IN  IF all.raises # "none" THEN all
             ELSE LET estimates == [k \in 1..Len(ctrs) |-> all.value[k][2]]
                  IN  [raises |-> "none",
                       value |-> [total_items |-> total,
                                  unique_items |-> Len(ctrs),
                                  base |-> b,
                                  min_estimate |-> RMinOf(estimates),
                                  max_estimate |-> RMaxOf(estimates),
                                  avg_estimate |-> RDiv(RSum(estimates),
                                                        RInt(Len(estimates))),
                                  processing_time |-> ptime]]

\* a call that evaluates to r = [raises, value] and leaves the dict as ctrs
Cs_returns(op, r, ctrs) ==
    /\ obj = "CsurosCounter"
    /\ ret' = [op |-> op, val |-> IF r.raises = "none" THEN r.value ELSE None]
    /\ err' = r.raises
    /\ counters' = ctrs
    /\ UNCHANGED <<obj, base, lcVars, total_items, processing_time, true_frequency>>

Cs_get_estimate(item) ==
    Cs_returns("get_estimate",
               Estimate(ValueOf(Touched(counters, item), item), base),
               Touched(counters, item))

Cs_get_raw_counter(item) ==
    Cs_returns("get_raw_counter",
               [raises |-> "none", value |-> ValueOf(Touched(counters, item), item)],
               Touched(counters, item))

Cs_get_all_estimates ==
    Cs_returns("get_all_estimates", GetAllEstimates(counters, base), counters)

Cs_get_most_frequent(n) ==
    Cs_returns("get_most_frequent", GetMostFrequent(counters, base, n), counters)

Cs_get_least_frequent(n) ==
    Cs_returns("get_least_frequent", GetLeastFrequent(counters, base, n), counters)

Cs_get_statistics ==
    Cs_returns("get_statistics",
               CsStatistics(counters, base, total_items, processing_time), counters)

Cs_reset ==
    /\ obj = "CsurosCounter"
    /\ counters' = <<>>
    /\ total_items' = 0
    /\ processing_time' = 0
    /\ true_frequency' = ZeroTrue
    /\ err' = "none"
    /\ ret' = [op |-> "reset", val |-> None]
    /\ UNCHANGED <<obj, base, lcVars>>

Next ==
    \/ \E eps \in EpsilonArgs, sup \in SupportArgs : LC_init(eps, sup)
    \/ \E item \in Items : LC_process_item(item)
    \/ \E stream \in Streams, elapsed \in ElapsedTimes : LC_process_stream(stream, elapsed)
    \/ \E min_support \in MinSupportArgs : LC_get_frequent_items(min_support)
    \/ \E n \in 0..MaxTopN : LC_get_top_n(n)
    \/ \E item \in Items : LC_get_count(item)
    \/ LC_get_all_counts
    \/ LC_get_statistics
    \/ LC_reset
    \/ \E b \in BaseArgs : Cs_init(b)
    \/ \E item \in CsItems, u \in Draws : Cs_increment(item, u)
    \/ \E stream \in DrawStreams, elapsed \in ElapsedTimes : Cs_process_stream(stream, elapsed)
    \/ \E item \in CsItems : Cs_get_estimate(item)
    \/ \E item \in CsItems : Cs_get_raw_counter(item)
    \/ Cs_get_all_estimates
    \/ \E n \in 0..MaxTopN : Cs_get_most_frequent(n)
    \/ \E n \in 0..MaxTopN : Cs_get_least_frequent(n)
    \/ Cs_get_statistics
    \/ Cs_reset

Spec == Init /\ [][Next]_vars

(***************************************************************************)
(* Properties                                                              *)
(***************************************************************************)
IsLC == obj = "LossyCount"
IsCs == obj = "CsurosCounter"

\* entry stored for an item of a LossyCount
EntryOf(item) == entries[IndexOf(entries, item)]

\* get_raw_counter without the side effect: 0.0 for an absent item
Raw(ctrs, item) == IF item \in Keys(ctrs) THEN ValueOf(ctrs, item) ELSE RInt(0)

\* C1: every stored entry (count, delta) brackets the true frequency of its
\* item: count <= true_frequency(item) <= count + delta.
C1_ErrorBound ==
    IsLC => \A k \in 1..Len(entries) :
                /\ entries[k].count <= true_frequency[entries[k].item]
                /\ true_frequency[entries[k].item] <= entries[k].count + entries[k].delta

\* an entry re-inserted after an eviction: delta > 0 and count below the true frequency
C1_Witness ==
    IsLC /\ \E k \in 1..Len(entries) :
                /\ entries[k].delta > 0
                /\ entries[k].count < true_frequency[entries[k].item]
                /\ entries[k].count > 1

\* C2: no false negatives: an item whose true frequency exceeds
\* support * total_items is stored with count >= (support - epsilon) * total_items
\* and is returned by get_frequent_items() with the default support.
C2_NoFalseNegatives ==
    IsLC => \A i \in Items :
        RLt(RMul(support, RInt(total_items)), RInt(true_frequency[i])) =>
            /\ i \in Keys(entries)
            /\ RLeq(RMul(RSub(support, epsilon), RInt(total_items)), RInt(EntryOf(i).count))
            /\ LET fi == GetFrequentItems(entries, epsilon, support, total_items, NoArg)
               IN  \E k \in 1..Len(fi) : fi[k][1] = i

\* a frequent item that was evicted once and is reported with an undercount
C2_Witness ==
    /\ IsLC /\ current_bucket > 1
    /\ \E i \in Items :
        /\ RLt(RMul(support, RInt(total_items)), RInt(true_frequency[i]))
        /\ i \in Keys(entries)
        /\ EntryOf(i).count < true_frequency[i]

\* C3: for every item, stored or not, true_frequency - get_count(item) is at
\* most epsilon * total_items.
C3_UndercountBound ==
    IsLC => \A i \in Items :
        RLeq(RInt(true_frequency[i] - GetCount(entries, i)),
             RMul(epsilon, RInt(total_items)))

\* an evicted item and a stored item with an undercount, after several prunes
C3_Witness ==
    /\ IsLC /\ current_bucket > 2
    /\ \E i \in Items : i \notin Keys(entries) /\ true_frequency[i] > 1
    /\ \E i \in Items : i \in Keys(entries) /\ EntryOf(i).count < true_frequency[i]

\* a step that is a call of the named method
Called(op) == ret'.op = op

\* C4: the raw counter of every item never decreases over an increment (of
\* that item or of another one), and is >= 1 once the item was incremented.
C4_Monotone ==
    /\ [](IsCs => \A i \in CsItems :
                    true_frequency[i] >= 1 => RLeq(RInt(1), Raw(counters, i)))
    /\ [][(IsCs /\ (Called("increment") \/ Called("process_stream"))) =>
            \A i \in CsItems : RLeq(Raw(counters, i), Raw(counters', i))]_vars

\* base 2, an item incremented three times of which one draw failed, next to another item
C4_Witness ==
    /\ IsCs /\ base = RInt(2)
    /\ \E i, j \in CsItems :
        /\ i # j
        /\ true_frequency[i] = 3 /\ Raw(counters, i) = RInt(2)
        /\ true_frequency[j] >= 1

\* expected value of the estimate after n more increments of a counter that
\* holds v, each increment weighted by the probability of its draw outcome
RECURSIVE ExpectedEstimate(_, _, _)
ExpectedEstimate(v, n, b) ==
    IF n = 0 THEN Estimate(v, b).value
    ELSE IF RLt(v, RInt(1)) THEN ExpectedEstimate(Increment(v, b, RInt(0)).value, n - 1, b)
    ELSE LET p == Probability(v, b)
         IN  RAdd(RMul(p, ExpectedEstimate(Increment(v, b, RInt(0)).value, n - 1, b)),
                  RMul(RSub(RInt(1), p), ExpectedEstimate(v, n - 1, b)))

\* C5: for base b > 1 the expected value of get_estimate(item) after n
\* increments of the item equals n.
C5_Unbiased ==
    (IsCs /\ RLt(RInt(1), base)) =>
        \A i \in CsItems :
            true_frequency[i] >= 1 =>
                REq(ExpectedEstimate(RInt(0), true_frequency[i], base),
                    RInt(true_frequency[i]))

\* every query of a LossyCount with the given fields, for every argument
LCQueries(ents, eps, sup, bw, cb, total, maxe, prunes, ptime) ==
    [get_count |-> [i \in Items |-> GetCount(ents, i)],
     get_top_n |-> [n \in 0..MaxTopN |-> GetTopN(ents, n)],
     get_frequent_items |->
        [ms \in MinSupportArgs |-> GetFrequentItems(ents, eps, sup, total, ms)],
     get_all_counts |-> GetAllCounts(ents),
     get_statistics |-> LCStatistics(ents, eps, sup, bw, cb, total, maxe, prunes, ptime)]

LCQueriesOfNew(f) ==
    LCQueries(f.entries, f.epsilon, f.support, f.bucket_width, f.current_bucket,
              f.total_items, f.max_entries, f.prune_count, f.processing_time)

\* every query of a CsurosCounter with the given fields, for every argument
CsQueries(ctrs, b, total, ptime) ==
    [get_estimate |-> [i \in CsItems |-> Estimate(ValueOf(Touched(ctrs, i), i), b)],
     get_raw_counter |-> [i \in CsItems |-> ValueOf(Touched(ctrs, i), i)],
     get_all_estimates |-> GetAllEstimates(ctrs, b),
     get_most_frequent |-> [n \in 0..MaxTopN |-> GetMostFrequent(ctrs, b, n)],
     get_least_frequent |-> [n \in 0..MaxTopN |-> GetLeastFrequent(ctrs, b, n)],
     get_statistics |-> CsStatistics(ctrs, b, total, ptime)]

\* C6: after reset() every query returns what it returns on a freshly
\* constructed instance with the same parameters (the fields are those of a
\* fresh instance), and a reset() right after a reset() changes nothing.
C6_ResetEquivalence ==
    [][/\ LC_reset =>
            /\ LCQueries(entries', epsilon', support', bucket_width', current_bucket',
                         total_items', max_entries', prune_count', processing_time')
                 = LCQueriesOfNew(LCNew(epsilon, support))
            /\ <<entries', current_bucket', items_in_current_bucket', total_items',
                 processing_time', max_entries', prune_count'>>
                 = <<LCNew(epsilon, support).entries,
                     LCNew(epsilon, support).current_bucket,
                     LCNew(epsilon, support).items_in_current_bucket,
                     LCNew(epsilon, support).total_items,
                     LCNew(epsilon, support).processing_time,
                     LCNew(epsilon, support).max_entries,
                     LCNew(epsilon, support).prune_count>>
            /\ <<epsilon', support', bucket_width'>>
                 = <<LCNew(epsilon, support).epsilon, LCNew(epsilon, support).support,
                     LCNew(epsilon, support).bucket_width>>
            /\ (ret.op = "reset" => UNCHANGED <<lcVars, total_items, processing_time>>)
       /\ Cs_reset =>
            /\ CsQueries(counters', base', total_items', processing_time')
                 = CsQueries(CsNew(base).counters, CsNew(base).base,
                             CsNew(base).total_items, CsNew(base).processing_time)
            /\ <<counters', base', total_items', processing_time'>>
                 = <<CsNew(base).counters, CsNew(base).base,
                     CsNew(base).total_items, CsNew(base).processing_time>>
            /\ (ret.op = "reset" => UNCHANGED <<csVars, total_items, processing_time>>)
      ]_vars

\* a LossyCount that was just reset
C6_Witness ==
    IsLC /\ ret.op = "reset" /\ entries = <<>> /\ max_entries = 0 /\ current_bucket = 1

\* C7: LossyCount(epsilon, support) yields an instance exactly when
\* 0 < epsilon < 1, 0 < support < 1 and epsilon < support; otherwise it raises
\* ValueError and there is no instance.
C7_Valid(eps, sup) ==
    /\ RLt(RInt(0), eps) /\ RLt(eps, RInt(1))
    /\ RLt(RInt(0), sup) /\ RLt(sup, RInt(1))
    /\ RLt(eps, sup)

C7_Construction ==
    /\ [](IsLC => C7_Valid(epsilon, support))
    /\ [][Called("LossyCount") =>
                IF C7_Valid(ret'.val[1], ret'.val[2])
                THEN obj' = "LossyCount" /\ err' = "none"
                ELSE obj' = "none" /\ err' = "ValueError"]_vars

\* a construction rejected only because epsilon >= support
C7_Witness ==
    /\ obj = "none" /\ err = "ValueError" /\ ret.op = "LossyCount"
    /\ RLt(RInt(0), ret.val[1]) /\ RLt(ret.val[1], RInt(1))
    /\ RLt(RInt(0), ret.val[2]) /\ RLt(ret.val[2], RInt(1))

\* C8: a CsurosCounter with base <= 1 is rejected at construction, so no
\* call on a constructed instance raises.
C8_BadBaseRejected ==
    IsCs => RLt(RInt(1), base) /\ err = "none"

\* C9: get_estimate and get_raw_counter leave the counters mapping unchanged.
C9_ReadsDoNotCreate ==
    [][(IsCs /\ (Called("get_estimate") \/ Called("get_raw_counter"))) =>
            counters' = counters]_vars

LC_query_step ==
    /\ IsLC
    /\ \/ Called("get_count") \/ Called("get_top_n") \/ Called("get_frequent_items")
       \/ Called("get_all_counts") \/ Called("get_statistics")

\* C10: the queries of a LossyCount leave entries, current_bucket,
\* items_in_current_bucket, total_items, max_entries and prune_count unchanged.
C10_QueriesReadOnly ==
    [][LC_query_step =>
        UNCHANGED <<entries, current_bucket, items_in_current_bucket, total_items,
                    max_entries, prune_count>>]_vars

\* get_count of an item that is not stored, on a counter that stores others
C10_Witness ==
    /\ IsLC /\ ret.op = "get_count" /\ ret.val = 0
    /\ entries # <<>> /\ Keys(entries) # Items

\* C11: get_statistics on an instance that has processed no item returns a
\* result that holds total_items = 0 and a number of stored/unique items = 0.
C11_EmptyStatistics ==
    /\ (IsLC /\ total_items = 0) =>
          LET st == LCStatistics(entries, epsilon, support, bucket_width, current_bucket,
                                 total_items, max_entries, prune_count, processing_time)
          IN  /\ {"total_items", "unique_items_stored"} \subseteq DOMAIN st
              /\ st.total_items = 0 /\ st.unique_items_stored = 0
    /\ (IsCs /\ total_items = 0) =>
          LET r == CsStatistics(counters, base, total_items, processing_time)
          IN  /\ r.raises = "none"
              /\ {"total_items", "unique_items"} \subseteq DOMAIN r.value
              /\ r.value.total_items = 0 /\ r.value.unique_items = 0

(***************************************************************************)
(* Scenario A: a LossyCount with epsilon = 0.1 fed streams of up to        *)
(* Len(StreamA) items, item by item or as StreamA in one process_stream    *)
(***************************************************************************)
StreamA == <<"A", "A", "A", "A", "B", "B", "C">>
EpsilonA == <<1, 10>>
SupportsA == {<<1, 2>>, <<3, 4>>}

NextA ==
    \/ \E sup \in SupportsA : LC_init(EpsilonA, sup)
    \/ \E item \in Items : LC_process_item_upto(item, Len(StreamA))
    \/ \E elapsed \in ElapsedTimes : LC_process_stream_upto(StreamA, elapsed, Len(StreamA))
    \/ \E n \in 0..MaxTopN : LC_get_top_n(n)

SpecScenarioA == Init /\ [][NextA]_vars

EntriesA ==
    <<[item |-> "A", count |-> 4, delta |-> 0],
      [item |-> "B", count |-> 2, delta |-> 0],
      [item |-> "C", count |-> 1, delta |-> 0]>>

\* C12: a LossyCount with epsilon = 0.1 (bucket_width 10) that is fed
\* [A,A,A,A,B,B,C] runs no prune and ends with entries
\* {A:(4,0), B:(2,0), C:(1,0)} and get_top_n(2) = [(A,4),(B,2)].
C12_ScenarioA ==
    [][(/\ IsLC /\ epsilon = EpsilonA /\ total_items = 0 /\ entries = <<>>
        /\ \E elapsed \in ElapsedTimes :
              LC_process_stream_upto(StreamA, elapsed, Len(StreamA)))
       => /\ bucket_width = 10
          /\ entries' = EntriesA
          /\ current_bucket' = 1 /\ prune_count' = 0
          /\ items_in_current_bucket' = 7 /\ total_items' = 7
          /\ GetTopN(entries', 2) = <<<<"A", 4>>, <<"B", 2>>>>]_vars

\* the stream was fed in one call and get_top_n(2) was then called
C12_Witness ==
    /\ IsLC /\ epsilon = EpsilonA /\ total_items = 7 /\ entries = EntriesA
    /\ processing_time = 1
    /\ ret.op = "get_top_n" /\ ret.val = <<<<"A", 4>>, <<"B", 2>>>>

(***************************************************************************)
(* Scenario B: LossyCount with epsilon = 0.5 fed [A,B,C,A]                 *)
(***************************************************************************)
StreamB == <<"A", "B", "C", "A">>
EpsilonB == <<1, 2>>

\* <<entries, current_bucket, items_in_current_bucket, total_items>> after
\* the first k items of StreamB, at index k + 1
ExpectedB ==
    << <<<<>>, 1, 0, 0>>,
       <<<<[item |-> "A", count |-> 1, delta |-> 0]>>, 1, 1, 1>>,
       <<<<>>, 2, 0, 2>>,
       <<<<[item |-> "C", count |-> 1, delta |-> 1]>>, 2, 1, 3>>,
       <<<<>>, 3, 0, 4>> >>

\* the entry the k-th item of StreamB is inserted as
InsertedB ==
    <<[item |-> "A", count |-> 1, delta |-> 0],
      [item |-> "B", count |-> 1, delta |-> 0],
      [item |-> "C", count |-> 1, delta |-> 1],
      [item |-> "A", count |-> 1, delta |-> 1]>>

\* C13: with epsilon = 0.5 (bucket_width 2) and the stream [A,B,C,A], the
\* second item completes bucket 1, the prune evicts A:(1,0) and B:(1,0) and
\* current_bucket becomes 2; C and then A are each inserted as a new entry
\* with count 1 and delta 1.
C13_ScenarioB ==
    [][\A k \in 1..Len(StreamB) :
        (/\ IsLC /\ epsilon = EpsilonB
         /\ <<entries, current_bucket, items_in_current_bucket, total_items>> = ExpectedB[k]
         /\ LC_process_item(StreamB[k]))
        => /\ bucket_width = 2
           /\ LET ins == InsertOrUpdate(entries, StreamB[k], current_bucket)
              IN  /\ Len(ins) = Len(entries) + 1
                  /\ ins[Len(ins)] = InsertedB[k]
                  /\ (k = 2 => /\ Keys(ins) = {"A", "B"}
                               /\ \A j \in 1..Len(ins) : ToRemove(ins[j], current_bucket))
           /\ <<entries', current_bucket', items_in_current_bucket', total_items'>>
                = ExpectedB[k + 1]]_vars

\* the first three items of the stream were processed: only C:(1,1) is stored
C13_Witness ==
    /\ IsLC /\ epsilon = EpsilonB
    /\ <<entries, current_bucket, items_in_current_bucket, total_items>> = ExpectedB[4]
    /\ true_frequency = [i \in Items |-> 1]
    /\ ret.op = "_process_item"

(***************************************************************************)
(* Scenario C: CsurosCounter with base = 2, random.random() always 0       *)
(***************************************************************************)
BaseC == RInt(2)

\* the k-th increment of item, from the raw value seq[k - 1] (0 before the
\* first), with a draw of 0, leaves the raw value seq[k]
ScenarioCStep(seq) ==
    \A item \in CsItems, k \in 1..Len(seq) :
        (/\ IsCs /\ base = BaseC
         /\ true_frequency[item] = k - 1
         /\ Raw(counters, item) = RInt(IF k = 1 THEN 0 ELSE seq[k - 1])
         /\ \E u \in Draws : REq(u, RInt(0)) /\ Cs_increment(item, u))
        => Raw(counters', item) = RInt(seq[k])

\* C14 as stated: with base 2 and every draw 0, the raw value after 1, 2, 3
\* and 4 increments of one key is 1, 2, 3 and 4.
C14_ScenarioC_Linear == [][ScenarioCStep(<<1, 2, 3, 4>>)]_vars

\* C14: with base 2 and every draw 0, the raw value after 1, 2, 3 and 4
\* increments of one key is 1, 2, 4 and 8: each successful increment adds
\* base^floor(log_base(v)), which doubles a power of two.
C14_ScenarioC == [][ScenarioCStep(<<1, 2, 4, 8>>)]_vars

\* four increments of A, all successful
C14_Witness ==
    /\ IsCs /\ base = BaseC
    /\ true_frequency["A"] = 4
    /\ Raw(counters, "A") = RInt(8)
    /\ ret.op = "increment"

\* C15: after any stream of N items, every item whose true frequency is at
\* least (support - epsilon) * N is present in entries.
C15_DocGuarantee ==
    IsLC => \A i \in Items :
                (/\ true_frequency[i] >= 1
                 /\ RLeq(RMul(RSub(support, epsilon), RInt(total_items)),
                         RInt(true_frequency[i])))
                => i \in Keys(entries)

\* r lists, once each and by non-increasing count, the triples
\* (item, count, count / total_items) of exactly the stored entries with
\* count >= (ms - epsilon) * total_items
IsFrequentList(r, ms) ==
    LET qualifying == {k \in 1..Len(entries) :
                          RLeq(RMul(RSub(ms, epsilon), RInt(total_items)),
                               RInt(entries[k].count))}
    IN  /\ Len(r) = Cardinality(qualifying)
        /\ \A k \in qualifying :
               \E j \in 1..Len(r) :
                   r[j] = <<entries[k].item, entries[k].count,
                            Rat(entries[k].count, total_items)>>
        /\ \A j \in 1..(Len(r) - 1) : r[j][2] >= r[j + 1][2]

ItemOrder == [i \in Items |-> CASE i = "A" -> 1 [] i = "B" -> 2 [] i = "C" -> 3]

\* C17: get_top_n(n), n >= 0, returns the first min(n, number of entries)
\* pairs (item, count) of the entries ordered by count descending, entries of
\* equal count ordered by item key.
C17_TopNTieByKey ==
    IsLC => \A n \in 0..MaxTopN :
        LET r        == GetTopN(entries, n)
            Precedes(i, c, j, d) == c > d \/ (c = d /\ ItemOrder[i] < ItemOrder[j])
            returned == {r[k][1] : k \in 1..Len(r)}
        IN  /\ Len(r) = IF n < Len(entries) THEN n ELSE Len(entries)
            /\ \A k \in 1..Len(r) :
                   r[k][1] \in Keys(entries) /\ r[k][2] = EntryOf(r[k][1]).count
            /\ \A k \in 1..(Len(r) - 1) : Precedes(r[k][1], r[k][2], r[k + 1][1], r[k + 1][2])
            /\ \A k \in 1..Len(r), j \in 1..Len(entries) :
                   entries[j].item \notin returned
                   => Precedes(r[k][1], r[k][2], entries[j].item, entries[j].count)

\* C18: get_most_frequent(n) / get_least_frequent(n) return the first n
\* (item, estimate) pairs by estimate descending / ascending, items of equal
\* estimate ordered by item key, so that the result does not depend on the
\* order in which the items first arrived.
C18_RankingTieByKey ==
    (IsCs /\ GetAllEstimates(counters, base).raises = "none") =>
        \A n \in 0..MaxTopN :
            LET most  == GetMostFrequent(counters, base, n).value
                least == GetLeastFrequent(counters, base, n).value
            IN  /\ \A k \in 1..(Len(most) - 1) :
                       \/ RLt(most[k + 1][2], most[k][2])
                       \/ /\ most[k + 1][2] = most[k][2]
                          /\ ItemOrder[most[k][1]] < ItemOrder[most[k + 1][1]]
                /\ \A k \in 1..(Len(least) - 1) :
                       \/ RLt(least[k][2], least[k + 1][2])
                       \/ /\ least[k + 1][2] = least[k][2]
                          /\ ItemOrder[least[k][1]] < ItemOrder[least[k + 1][1]]

\* C19: prune_count is the number of prune passes that ran, that is the
\* number of completed buckets, current_bucket - 1 = floor(total_items /
\* bucket_width), whether or not a pass evicted an entry.
C19_PruneCountIsPasses ==
    IsLC => /\ current_bucket - 1 = total_items \div bucket_width
            /\ prune_count = current_bucket - 1

\* bucket bookkeeping after N = total_items processed items
C20_Bookkeeping ==
    IsLC => /\ 0 <= items_in_current_bucket
            /\ items_in_current_bucket < bucket_width
            /\ items_in_current_bucket = total_items % bucket_width
            /\ current_bucket = 1 + (total_items \div bucket_width)

\* one call: construction starts at bucket 1 with no item in it; the
\* bucket_width-th item of a bucket is followed by a prune with the bucket
\* just completed and moves to the next bucket; any other item evicts nothing
\* and stays in the bucket; no call but reset moves the bucket otherwise
C20_Step ==
    /\ (Called("LossyCount") /\ err' = "none")
          => IsLC' /\ current_bucket' = 1 /\ items_in_current_bucket' = 0
    /\ (IsLC /\ Called("_process_item"))
          => IF total_items' % bucket_width = 0
             THEN /\ current_bucket' = current_bucket + 1
                  /\ items_in_current_bucket' = 0
                  /\ \A k \in 1..Len(entries') :
                         entries'[k].count + entries'[k].delta > current_bucket
             ELSE /\ current_bucket' = current_bucket
                  /\ items_in_current_bucket' = items_in_current_bucket + 1
                  /\ Keys(entries) \subseteq Keys(entries')
    /\ (IsLC /\ Called("process_stream"))
          => current_bucket' - current_bucket
               = (total_items' \div bucket_width) - (total_items \div bucket_width)
    /\ (IsLC /\ IsLC' /\ ~Called("_process_item") /\ ~Called("process_stream")
             /\ ~Called("reset") /\ ~Called("LossyCount"))
          => /\ current_bucket' = current_bucket
             /\ items_in_current_bucket' = items_in_current_bucket

\* C20: the counter starts with current_bucket = 1 and
\* items_in_current_bucket = 0; after N processed items
\* 0 <= items_in_current_bucket < bucket_width, items_in_current_bucket =
\* N mod bucket_width and current_bucket = 1 + floor(N / bucket_width); the
\* prune runs exactly on every bucket_width-th item, current_bucket then grows
\* by exactly 1, and it changes at no other call but reset.
C20_Buckets == []C20_Bookkeeping /\ [][C20_Step]_vars

\* the item that completes the second bucket was just processed
C20_Witness ==
    /\ IsLC /\ ret.op = "_process_item"
    /\ total_items = 2 * bucket_width
    /\ current_bucket = 3 /\ items_in_current_bucket = 0

\* the item a _process_item step processed
Processed(i) == true_frequency'[i] = true_frequency[i] + 1

\* the values an entry can hold
C21_Stored ==
    IsLC => \A k \in 1..Len(entries) :
                /\ entries[k].count >= 1
                /\ entries[k].delta >= 0
                /\ entries[k].delta <= current_bucket - 1

\* one _process_item call: the insert/update of the item's entry
C21_Step ==
    (IsLC /\ Called("_process_item")) =>
        \A i \in Items : Processed(i) =>
            LET ins == InsertOrUpdate(entries, i, current_bucket)
                new == ins[IndexOf(ins, i)]
            IN  /\ Keys(ins) = Keys(entries) \cup {i}
                /\ Len(ins) = Cardinality(Keys(ins))
                /\ IF i \in Keys(entries)
                   THEN /\ new.count = EntryOf(i).count + 1
                        /\ new.delta = EntryOf(i).delta
                   ELSE /\ new.count = 1
                        /\ new.delta = current_bucket - 1
                /\ \A k \in 1..Len(entries) :
                       entries[k].item # i => entries[k] \in {ins[j] : j \in 1..Len(ins)}
                \* what the step leaves stored is what the insert/update made
                /\ \A k \in 1..Len(entries') : entries'[k] \in {ins[j] : j \in 1..Len(ins)}
                /\ \A k \in 1..Len(entries), j \in 1..Len(entries') :
                       entries[k].item = entries'[j].item
                       => entries'[j].delta = entries[k].delta

\* C21: processing one item adds exactly 1 to the count of its entry and
\* leaves its delta, or inserts it with count 1 and delta = current_bucket - 1
\* (the bucket before any prune of the step); the insert/update leaves every
\* other entry as it was; every stored count is >= 1, every stored delta is
\* within 0..current_bucket - 1, and the delta of an entry does not change
\* while the entry stays stored.
C21_ProcessOne == []C21_Stored /\ [][C21_Step]_vars

\* an item was just counted again next to an entry inserted in a later bucket
C21_Witness ==
    /\ IsLC /\ ret.op = "_process_item"
    /\ \E k, j \in 1..Len(entries) :
          /\ entries[k].count >= 2 /\ entries[k].delta = 0
          /\ entries[j].delta >= 1
          /\ true_frequency[entries[k].item] = entries[k].count

\* one _process_item call: what the prune keeps of the insert/update result
C22_Step ==
    (IsLC /\ Called("_process_item")) =>
        \A i \in Items : Processed(i) =>
            LET ins  == InsertOrUpdate(entries, i, current_bucket)
                kept == Pruned(ins, current_bucket)
                In(s) == {s[k] : k \in 1..Len(s)}
            IN  /\ In(kept) = {e \in In(ins) : e.count + e.delta > current_bucket}
                /\ Len(kept) = Cardinality(In(kept))
                /\ \A k, j \in 1..Len(kept) :
                       k < j => IndexOf(ins, kept[k].item) < IndexOf(ins, kept[j].item)
                /\ entries' = IF items_in_current_bucket + 1 = bucket_width
                              THEN kept ELSE ins
                /\ total_items' = total_items + 1

\* C22: the prune removes exactly the entries with count + delta <=
\* current_bucket (the bucket number before it is incremented): each of them
\* is removed, every other entry is kept with its count and delta, and the
\* prune does not change total_items.
C22_Prune == [][C22_Step]_vars

\* the item that completed the first bucket was just processed: its prune
\* removed one entry and kept another
C22_Witness ==
    /\ IsLC /\ ret.op = "_process_item"
    /\ current_bucket = 2 /\ items_in_current_bucket = 0 /\ prune_count = 1
    /\ entries # <<>>
    /\ \E i \in Items : true_frequency[i] = 1 /\ i \notin Keys(entries)

\* one increment(item) call with draw u, against the update rule
C23_Step ==
    (IsCs /\ Called("increment")) =>
        \A i \in CsItems, u \in Draws : Cs_increment(i, u) =>
            LET v == Raw(counters, i)
                e == Exponent(v, base)
            IN  (RLt(v, RInt(1)) \/ LogRaises(base) = "none") =>
                  /\ err' = "none"
                  /\ Raw(counters', i) =
                        IF RLt(v, RInt(1)) THEN RInt(1)
                        ELSE IF RLt(u, RDiv(RInt(1), RPow(base, e)))
                             THEN RAdd(v, RPow(base, e))
                             ELSE v
                  /\ total_items' = total_items + 1
                  /\ Keys(counters') = Keys(counters) \cup {i}
                  /\ \A j \in CsItems \ {i} : Raw(counters', j) = Raw(counters, j)

\* C23: increment(item) turns a stored value v < 1 (an absent item included)
\* into exactly 1 whatever the draw; otherwise, with e = floor(log_base(v))
\* (for a base that has a logarithm: base > 0, base # 1), the value becomes
\* v + base^e when the draw u < base^-e and stays v when not, and nothing
\* else; in each of these cases total_items grows by exactly 1 and no other
\* item changes.
C23_UpdateRule == [][C23_Step]_vars

\* base 2: A went 1, 2, 2 (failed draw), 4
C23_Witness ==
    /\ IsCs /\ base = RInt(2) /\ ret.op = "increment"
    /\ true_frequency["A"] = 4 /\ Raw(counters, "A") = RInt(4)

\* what get_estimate(i) returns in the current state
C24_Estimates ==
    IsCs => \A i \in CsItems :
        LET raw == Raw(counters, i)
            r   == Estimate(raw, base)
        IN  /\ (i \notin Keys(counters) \/ RLeq(raw, RInt(0)))
                  => r.raises = "none" /\ r.value = RInt(0)
            /\ (RLt(RInt(0), raw) /\ ~REq(base, RInt(1)))
                  => /\ r.raises = "none"
                     \* r.value = (base / (base - 1)) * (raw - 1) + 1
                     /\ REq(RMul(RSub(r.value, RInt(1)), RSub(base, RInt(1))),
                            RMul(base, RSub(raw, RInt(1))))
            /\ (true_frequency[i] = 1 /\ ~REq(base, RInt(1))) => r.value = RInt(1)
            /\ (true_frequency[i] >= 1 /\ RLt(RInt(1), base)) => RLeq(raw, r.value)

\* one call: get_estimate returns that value; an increment does not lower it
C24_Step ==
    /\ (IsCs /\ Called("get_estimate")) =>
          \E i \in CsItems :
              /\ Keys(counters') = Keys(counters) \cup {i}
              /\ err' = Estimate(Raw(counters, i), base).raises
              /\ err' = "none" => ret'.val = Estimate(Raw(counters, i), base).value
    /\ (IsCs /\ RLt(RInt(1), base) /\ (Called("increment") \/ Called("process_stream"))) =>
          \A i \in CsItems :
              RLeq(Estimate(Raw(counters, i), base).value,
                   Estimate(Raw(counters', i), base).value)

\* C24: get_estimate(item) returns 0.0 for an absent item or a stored value
\* <= 0 and (base / (base - 1)) * (raw - 1) + 1 otherwise (base # 1, where
\* the quotient exists); an item incremented once has estimate exactly 1; for
\* base > 1 the estimate of a touched item is >= its raw value and does not
\* decrease over increments.
C24_GetEstimate == []C24_Estimates /\ [][C24_Step]_vars

\* base 2, raw 4: get_estimate returned 2 * 3 + 1
C24_Witness ==
    /\ IsCs /\ base = RInt(2)
    /\ ret.op = "get_estimate" /\ ret.val = RInt(7)
    /\ \E i \in CsItems : Raw(counters, i) = RInt(4)

(***************************************************************************)
(* The ingestion surface alone: construction, feeding and reset            *)
(***************************************************************************)
NextIngest ==
    \/ \E eps \in EpsilonArgs, sup \in SupportArgs : LC_init(eps, sup)
    \/ \E item \in Items : LC_process_item(item)
    \/ \E stream \in Streams, elapsed \in ElapsedTimes : LC_process_stream(stream, elapsed)
    \/ LC_reset
    \/ \E b \in BaseArgs : Cs_init(b)
    \/ \E item \in CsItems, u \in Draws : Cs_increment(item, u)
    \/ \E stream \in DrawStreams, elapsed \in ElapsedTimes : Cs_process_stream(stream, elapsed)
    \/ Cs_reset

SpecIngest == Init /\ [][NextIngest]_vars

\* streams of up to two elements, with and without missing ones
C25_Streams == UNION {[1..n -> StreamElems] : n \in 0..2}
C25_DrawStreams == UNION {[1..n -> DrawStreamElems] : n \in 0..2}

\* from any state, a stream and the stream without its missing elements
\* leave the same state
C25_Same ==
    /\ IsLC => \A stream \in C25_Streams :
          LET clean == SelectSeq(stream, notna)
          IN  /\ ProcessStream(LCState, stream) = ProcessStream(LCState, clean)
              /\ ProcessStream(LCState, stream).total_items = total_items + Len(clean)
              /\ clean = <<>> => ProcessStream(LCState, stream) = LCState
    /\ IsCs => \A stream \in C25_DrawStreams :
          LET clean == SelectSeq(stream, LAMBDA x : notna(x[1]))
              st    == CsProcessStream(CsState, stream)
          IN  /\ st = CsProcessStream(CsState, clean)
              /\ st.raises = "none" => st.total_items = total_items + Len(clean)
              /\ clean = <<>> => st = CsState

\* one process_stream call: a call that counted k elements leaves the state
\* a stream of k elements, none missing, gives; one that counted none changes
\* nothing
C25_Step ==
    /\ (IsLC /\ Called("process_stream")) =>
          /\ total_items' = total_items =>
                UNCHANGED <<entries, current_bucket, items_in_current_bucket>>
          /\ \E clean \in [1..(total_items' - total_items) -> Items] :
                LET st == ProcessStream(LCState, clean)
                IN  <<entries', current_bucket', items_in_current_bucket'>>
                      = <<st.entries, st.current_bucket, st.items_in_current_bucket>>
    /\ (IsCs /\ Called("process_stream") /\ err' = "none") =>
          /\ total_items' = total_items => UNCHANGED counters
          /\ \E clean \in [1..(total_items' - total_items) -> CsItems \X Draws] :
                counters' = CsProcessStream(CsState, clean).counters

C26_Covers ==
    IsLC => /\ max_entries >= Len(entries)
            /\ total_items = 0 => max_entries = 0
            /\ total_items > 0 => max_entries >= 1

\* one call: an item raises max_entries to the number of entries held right
\* after its insert/update, before any prune, when that number is larger;
\* construction and reset start it at 0; nothing else lowers it
C26_Step ==
    /\ (IsLC /\ Called("_process_item")) =>
          \A i \in Items : Processed(i) =>
              LET held == Len(entries) + (IF i \in Keys(entries) THEN 0 ELSE 1)
              IN  max_entries' = IF held > max_entries THEN held ELSE max_entries
    /\ (IsLC' /\ err' = "none" /\ (Called("reset") \/ Called("LossyCount")))
          => max_entries' = 0
    /\ (IsLC /\ ~Called("reset")) => max_entries' >= max_entries

\* C26: max_entries is the largest number of entries held at any moment since
\* construction or the last reset, the moment just before a prune included;
\* it is >= the current number of entries and decreases only by reset.
C26_MaxEntries == []C26_Covers /\ [][C26_Step]_vars

\* three entries were held when the first bucket was completed, and its prune
\* left one
C26_Witness ==
    /\ IsLC /\ ret.op = "_process_item"
    /\ current_bucket = 2 /\ items_in_current_bucket = 0
    /\ max_entries = 3 /\ Len(entries) = 1

\* every stored entry has count + delta >= current_bucket
C27_Survivors ==
    IsLC => \A k \in 1..Len(entries) :
                entries[k].count + entries[k].delta >= current_bucket

\* a new item that completes a bucket is inserted as (1, current_bucket - 1)
\* and evicted by the prune of the same call
C27_Step ==
    (IsLC /\ Called("_process_item")) =>
        \A i \in Items :
            (/\ Processed(i) /\ i \notin Keys(entries)
             /\ items_in_current_bucket + 1 = bucket_width)
            => LET ins == InsertOrUpdate(entries, i, current_bucket)
               IN  /\ ins[Len(ins)] = [item |-> i, count |-> 1, delta |-> current_bucket - 1]
                   /\ i \notin Keys(entries')

\* C27: between any two process calls every stored entry satisfies
\* count + delta >= current_bucket; an entry inserted by the item that
\* completes a bucket (count 1, delta current_bucket - 1) is evicted by the
\* prune of that same step.
C27_SurvivorInvariant == []C27_Survivors /\ [][C27_Step]_vars

\* bucket_width 2: two different items were processed, the second completed
\* the bucket, and the prune evicted both
C27_Witness ==
    /\ IsLC /\ ret.op = "_process_item"
    /\ bucket_width = 2 /\ total_items = 2 /\ max_entries = 2
    /\ entries = <<>>

\* C28: every item that is not in entries (never seen, or evicted) has true
\* frequency <= current_bucket - 1, hence occurred at most
\* floor(total_items / bucket_width) times.
C28_EvictionBound ==
    IsLC => \A i \in Items :
                i \notin Keys(entries)
                => /\ true_frequency[i] <= current_bucket - 1
                   /\ true_frequency[i] <= total_items \div bucket_width

\* an item that occurred twice, once in each of two completed buckets, is absent
C28_Witness ==
    /\ IsLC /\ current_bucket = 3
    /\ \E i \in Items : i \notin Keys(entries) /\ true_frequency[i] = 2

\* base 2: raw values, and the estimate, of the items that were incremented
C29_Powers ==
    (IsCs /\ base = BaseC) =>
        \A i \in CsItems : true_frequency[i] >= 1 =>
            LET raw == Raw(counters, i)
            IN  /\ \E k \in 0..MaxIncr : raw = RInt(2 ^ k)
                /\ true_frequency[i] >= 2 => RLeq(RInt(2), raw)
                /\ Estimate(raw, base) =
                      [raises |-> "none", value |-> RInt(2 * raw[1] - 1)]

\* base 2: one increment call leaves the raw value or doubles it, and doubles
\* a raw value of 1 whatever the draw
C29_Step ==
    (IsCs /\ base = BaseC /\ Called("increment")) =>
        \A i \in CsItems :
            LET raw == Raw(counters, i)
            IN  RLeq(RInt(1), raw) =>
                  /\ Raw(counters', i) \in {raw, RMul(RInt(2), raw)}
                  /\ (raw = RInt(1) /\ true_frequency'[i] = true_frequency[i] + 1)
                        => Raw(counters', i) = RInt(2)

\* C29: with base = 2, whatever the draws, the raw value of an incremented
\* item is a power of two, each successful increment exactly doubles it, the
\* second increment of an item always succeeds (an item seen twice has raw
\* >= 2), and the estimate is 2 * raw - 1.
C29_BaseTwo == []C29_Powers /\ [][C29_Step]_vars

\* base 2: A is at 2 after three increments (one draw failed), B at 1
C29_Witness ==
    /\ IsCs /\ base = BaseC /\ ret.op = "increment"
    /\ true_frequency["A"] = 3 /\ Raw(counters, "A") = RInt(2)
    /\ true_frequency["B"] = 1 /\ Raw(counters, "B") = RInt(1)

RECURSIVE SumCounts(_)
SumCounts(ents) == IF ents = <<>> THEN 0 ELSE Head(ents).count + SumCounts(Tail(ents))

RECURSIVE SumOver(_, _)
SumOver(f, S) ==
    IF S = {} THEN 0 ELSE LET x == CHOOSE y \in S : TRUE IN f[x] + SumOver(f, S \ {x})

\* total_items against the items processed since construction or reset, and
\* against the stored counts
C30_Totals ==
    /\ IsLC => /\ total_items = SumOver(true_frequency, Items)
               /\ SumCounts(entries) <= total_items
               /\ prune_count = 0 => SumCounts(entries) = total_items
    /\ IsCs => total_items = SumOver(true_frequency, CsItems)

\* one call: each processed item and each increment that returns adds exactly
\* 1 to total_items, whatever the draw
C30_Step ==
    /\ (IsLC /\ Called("_process_item")) => total_items' = total_items + 1
    /\ (IsCs /\ Called("increment") /\ err' = "none") => total_items' = total_items + 1
    /\ (Called("reset") \/ Called("LossyCount") \/ Called("CsurosCounter"))
          => (err' = "none" => total_items' = 0)

====
